---------------------------- MODULE Spec2Model ----------------------------
(***************************************************************************)
(* PyFECONS: the finite-difference LCOE sensitivity analyzer               *)
(* (pyfecons/sensitivity.py and the stand-alone sensitivity_analysis.py)   *)
(* over the staged costing pipeline (RunCosting).                          *)
(*                                                                         *)
(* Python floats are modelled as exact rationals n/d together with the     *)
(* IEEE specials inf, -inf and nan.  A Python exception raised while an    *)
(* expression is evaluated is the value Err, which every operator          *)
(* propagates; None is a value of its own on which arithmetic raises       *)
(* (TypeError).  Cplx stands for any complex number: Python 3 returns one  *)
(* for a negative base raised to a non-integral power, arithmetic carries  *)
(* it along, and float() and the float-based unit types reject it.  Huge   *)
(* stands for an int beyond the range of a float: Python ints are          *)
(* unbounded, and converting one that large, as any arithmetic with a      *)
(* float does, raises OverflowError.                                       *)
(***************************************************************************)
EXTENDS Integers, Sequences, FiniteSets, TLC

(***************************************************************************)
(* Python float arithmetic                                                 *)
(***************************************************************************)
Abs(x) == IF x < 0 THEN -x ELSE x

RECURSIVE GCD(_, _)
GCD(a, b) == IF b = 0 THEN a ELSE GCD(b, a % b)

Fin(n, d) ==
    LET s == IF d < 0 THEN -1 ELSE 1
        g == GCD(Abs(n), Abs(d))
    IN  [k |-> "fin", n |-> (s * n) \div g, d |-> Abs(d) \div g]

Int2F(n) == [k |-> "fin", n |-> n, d |-> 1]
PInf  == [k |-> "inf", n |-> 1, d |-> 0]
NInf  == [k |-> "inf", n |-> -1, d |-> 0]
NaN   == [k |-> "nan", n |-> 0, d |-> 0]
Err   == [k |-> "err", n |-> 0, d |-> 0]
NoneF == [k |-> "none", n |-> 0, d |-> 0]
Cplx  == [k |-> "cplx", n |-> 0, d |-> 0]
Huge  == [k |-> "huge", n |-> 1, d |-> 0]
Zero  == Int2F(0)
One   == Int2F(1)

IsFin(x)  == x.k = "fin"
IsInf(x)  == x.k = "inf"
IsNaN(x)  == x.k = "nan"
IsErr(x)  == x.k = "err"
IsCplx(x) == x.k = "cplx"
\* an operand on which Python float arithmetic raises: an exception already
\* in flight, None (TypeError), or an int too large for a float
\* (OverflowError)
Bad(x)    == x.k \in {"err", "none", "huge"}
Sign(x)   == IF x.n > 0 THEN 1 ELSE IF x.n < 0 THEN -1 ELSE 0
IsZeroF(x) == x.k = "fin" /\ x.n = 0
\* finite and usable as an objective value
IsValidNumber(x) == x.k = "fin"

FNeg(x) ==
    IF Bad(x) THEN Err
    ELSE IF IsCplx(x) THEN Cplx
    ELSE IF IsFin(x) THEN [x EXCEPT !.n = -x.n]
    ELSE IF IsInf(x) THEN [x EXCEPT !.n = -x.n]
    ELSE NaN

\* abs(x); the abs of an int is an int
FAbs(x) ==
    IF x.k = "huge" THEN Huge
    ELSE IF Bad(x) THEN Err
    ELSE IF IsNaN(x) THEN NaN
    ELSE [x EXCEPT !.n = Abs(x.n)]

FAdd(x, y) ==
    IF Bad(x) \/ Bad(y) THEN Err
    ELSE IF IsCplx(x) \/ IsCplx(y) THEN Cplx
    ELSE IF IsNaN(x) \/ IsNaN(y) THEN NaN
    ELSE IF IsInf(x) /\ IsInf(y) THEN (IF x.n = y.n THEN x ELSE NaN)
    ELSE IF IsInf(x) THEN x
    ELSE IF IsInf(y) THEN y
    ELSE LET g == GCD(x.d, y.d)
         IN  Fin(x.n * (y.d \div g) + y.n * (x.d \div g), (x.d \div g) * y.d)

FSub(x, y) == FAdd(x, FNeg(y))

FMul(x, y) ==
    IF Bad(x) \/ Bad(y) THEN Err
    ELSE IF IsCplx(x) \/ IsCplx(y) THEN Cplx
    ELSE IF IsNaN(x) \/ IsNaN(y) THEN NaN
    ELSE IF IsInf(x) \/ IsInf(y)
         THEN (IF Sign(x) * Sign(y) = 0 THEN NaN
               ELSE IF Sign(x) * Sign(y) > 0 THEN PInf ELSE NInf)
    ELSE LET g1 == GCD(Abs(x.n), y.d)
             g2 == GCD(Abs(y.n), x.d)
         IN  Fin((x.n \div g1) * (y.n \div g2), (x.d \div g2) * (y.d \div g1))

\* x / y: ZeroDivisionError on a zero divisor
FDiv(x, y) ==
    IF Bad(x) \/ Bad(y) THEN Err
    ELSE IF IsZeroF(y) THEN Err
    ELSE IF IsCplx(x) \/ IsCplx(y) THEN Cplx
    ELSE IF IsNaN(x) \/ IsNaN(y) THEN NaN
    ELSE IF IsInf(y) THEN (IF IsInf(x) THEN NaN ELSE Zero)
    ELSE IF IsInf(x) THEN (IF Sign(x) * Sign(y) > 0 THEN PInf ELSE NInf)
    ELSE FMul(x, Fin(y.d * Sign(y), Abs(y.n)))

\* x < y, x <= y, x == y on floats; every comparison with nan is False
FLt(x, y) ==
    IF IsNaN(x) \/ IsNaN(y) THEN FALSE
    ELSE IF IsInf(x) THEN (x.n < 0 /\ ~(IsInf(y) /\ y.n < 0))
    ELSE IF IsInf(y) THEN y.n > 0
    ELSE FSub(x, y).n < 0

FEq(x, y) == ~IsNaN(x) /\ ~IsNaN(y) /\ x = y
FLe(x, y) == FLt(x, y) \/ FEq(x, y)

\* abs(x) < 1e-9 (lcoe.py, cas70): decided without forming n * 10^9
TinyDen == 1000000000
FTiny(x) ==
    IF ~IsFin(x) THEN FALSE
    ELSE IF x.n = 0 THEN TRUE
    ELSE LET q == x.d \div Abs(x.n)
             r == x.d % Abs(x.n)
         IN  q > TinyDen \/ (q = TinyDen /\ r > 0)

IsIntegral(x) == IsFin(x) /\ x.d = 1

RECURSIVE IPow(_, _)
IPow(x, m) == IF m = 0 THEN One ELSE FMul(x, IPow(x, m - 1))

\* x ** y.  An integral exponent is exact; a negative one divides
\* (ZeroDivisionError at 0.0).  A negative base with a non-integral exponent
\* gives a complex number.  A positive base with a non-integral exponent is
\* interpolated linearly between the two neighbouring integral powers.
FPow(x, y) ==
    IF Bad(x) \/ Bad(y) THEN Err
    ELSE IF IsCplx(x) \/ IsCplx(y) THEN Cplx
    ELSE IF IsZeroF(y) THEN One
    ELSE IF x = One THEN One
    ELSE IF IsNaN(x) \/ IsNaN(y) THEN NaN
    ELSE IF IsInf(y)
         THEN (IF FAbs(x) = One THEN One
               ELSE IF FLt(One, FAbs(x)) = (y.n > 0) THEN PInf ELSE Zero)
    ELSE IF IsInf(x)
         THEN (IF y.n < 0 THEN Zero
               ELSE IF x.n > 0 THEN PInf
               ELSE IF ~IsIntegral(y) THEN PInf
               ELSE IF y.n % 2 = 1 THEN NInf ELSE PInf)
    ELSE IF IsIntegral(y)
         THEN (IF y.n > 0 THEN IPow(x, y.n)
               ELSE IF IsZeroF(x) THEN Err
               ELSE FDiv(One, IPow(x, -y.n)))
    ELSE IF x.n < 0 THEN Cplx
    ELSE IF IsZeroF(x) THEN (IF y.n < 0 THEN Err ELSE Zero)
    ELSE LET ay   == FAbs(y)
             fl   == ay.n \div ay.d
             frac == FSub(ay, Int2F(fl))
             lo   == IPow(x, fl)
             hi   == FMul(lo, x)
             p    == FAdd(lo, FMul(frac, FSub(hi, lo)))
         IN  IF y.n > 0 THEN p ELSE FDiv(One, p)

\* float(v), and the float-based unit types M_USD(v), USD(v), Ratio(v):
\* TypeError on None and on a complex number, otherwise the value
ToFloat(x) == IF Bad(x) \/ IsCplx(x) THEN Err ELSE x

(***************************************************************************)
(* The parameter tree (AllInputs): an object graph of dataclasses.  Every  *)
(* field is addressed by its path from the root; a value carries its       *)
(* Python type t and, when it is a number or a bool, its numeric value x   *)
(* (True is 1 and False is 0, as isinstance(True, int) holds in Python).   *)
(***************************************************************************)
V(t, x)    == [t |-> t, x |-> x]
NoneV      == V("none", NoneF)
BoolV(b)   == V("bool", IF b THEN One ELSE Zero)
IntV(n)    == V("int", Int2F(n))
FloatV(x)  == V("float", x)
StrV       == V("str", NoneF)
EnumV      == V("enum", NoneF)
ListV      == V("list", NoneF)
DataclassV == V("dc", NoneF)

\* field names in ASCII order, the order sorted() gives dotted paths (the
\* '.' separator sorts before every identifier character, so dotted
\* strings compare as the tuples of their segments do)
FieldNames ==
    << "C100000", "C1000000", "C110000", "C220000", "C220101", "C900000",
       "a", "a_c_98", "a_power", "b", "basic", "capital_recovery_factor",
       "cas10", "cas22", "cas220101", "cas90", "coils", "construction_time",
       "construction_years", "costing_constants", "customer_info", "eta_de",
       "eta_pin", "eta_th", "exchange_rate_date", "f_dec", "financial",
       "fusion_machine_type", "inflation", "interest_rate", "lcoe", "magnets",
       "n_mod", "name", "noak", "om_cost_per_mw_per_year", "p_coils",
       "p_cool", "p_implosion", "p_input", "p_net", "p_nrl", "p_pump", "plant_availability", "plant_lifetime", "plant_lifetime_years",
       "power_input", "power_table", "target_year", "yearly_inflation" >>

Rank(name) == CHOOSE r \in 1..Len(FieldNames) : FieldNames[r] = name

RECURSIVE PathLt(_, _)
PathLt(p, q) ==
    IF q = << >> THEN FALSE
    ELSE IF p = << >> THEN TRUE
    ELSE IF Head(p) # Head(q) THEN Rank(Head(p)) < Rank(Head(q))
    ELSE PathLt(Tail(p), Tail(q))

\* getattr(obj, name) read as an operand of arithmetic: a number (or bool)
\* gives its value, anything else a value on which arithmetic raises
Get(tree, path) ==
    IF tree[path].t \in {"int", "float", "bool"} THEN tree[path].x ELSE NoneF

IsNone(tree, path) == tree[path].t = "none"

\* setattr(obj, field, value) on the object graph
SetAttr(tree, path, val) == [tree EXCEPT ![path] = val]

\* faulty variant: a copy of the root object's own fields, the nested
\* dataclasses left out (None)
RootFieldsCopy(tree) ==
    [p \in { q \in DOMAIN tree : Len(q) <= 1 } |->
        IF Len(p) = 1 /\ tree[p].t = "dc" THEN V("none", tree[p].x)
        ELSE V(tree[p].t, tree[p].x)]

\* copy.deepcopy: a new object graph with a copy of every field of every
\* dataclass reachable from the root
DeepCopy(tree) == [p \in DOMAIN tree |-> V(tree[p].t, tree[p].x)]

(***************************************************************************)
(* The costing pipeline                                                    *)
(***************************************************************************)
BASIC     == << "basic" >>
FINANCIAL == << "financial" >>
Basic(f)      == << "basic", f >>
Financial(f)  == << "financial", f >>
PowerInput(f) == << "power_input", f >>
Constants(f)  == << "costing_constants", f >>

HoursPerYear == 8760
Million      == 1000000
Thousand     == 1000

to_m_usd(dollars) == ToFloat(FDiv(dollars, Int2F(Million)))
m_to_usd(dollars) == ToFloat(FMul(dollars, Int2F(Million)))

\* CRF = i*(1+i)^n / ((1+i)^n - 1), pw being (1+i)^n
CrfFrom(i, pw) == FDiv(FMul(i, pw), FSub(pw, One))
CrfFormula(i, n) == CrfFrom(i, FPow(FAdd(One, i), n))

\* "if i <= 0 or n <= 0": the legacy / fallback branch
Fallback(i, n) == FLe(i, Zero) \/ FLe(n, Zero)

\* PV of a growing annuity, with the i == g limit case
PvGrowing(base, i, g, n) ==
    IF FTiny(FAbs(FSub(i, g)))
    THEN FDiv(FMul(base, n), FAdd(One, i))
    ELSE FDiv(FMul(base,
                   FSub(One, FPow(FDiv(FAdd(One, g), FAdd(One, i)), n))),
              FSub(i, g))

\* cas70_annualized_om_costs(basic, financial, power_table, constants):
\* C700000, or Err when the stage raises.  c_om_m is to_m_usd(c_om).
Cas70Levelized(c_om_m, i, n, Tc, pv_opex) ==
    IF IsErr(c_om_m) \/ IsErr(i) \/ IsErr(n) \/ IsErr(Tc) \/ IsErr(pv_opex)
    THEN Err
    ELSE IF Fallback(i, n) THEN c_om_m
    ELSE FMul(FMul(CrfFormula(i, n), FPow(FAdd(One, i), Tc)), pv_opex)

Cas70PresentValue(c_om_m, i, g, n, Tc) ==
    Cas70Levelized(c_om_m, i, n, Tc,
                   IF IsErr(g) THEN Err ELSE PvGrowing(c_om_m, i, g, n))

cas70_annualized_om_costs(tree, p_net) ==
    Cas70PresentValue(
        to_m_usd(FMul(FMul(Get(tree, Constants("om_cost_per_mw_per_year")),
                           p_net), Int2F(Thousand))),
        ToFloat(Get(tree, Financial("interest_rate"))),
        ToFloat(Get(tree, Basic("yearly_inflation"))),
        ToFloat(Get(tree, Basic("plant_lifetime"))),
        ToFloat(Get(tree, Basic("construction_time"))))

\* faulty variant: the factor for the construction time is applied to the
\* field as it comes in
Cas90CompoundsLegacy(i, n, Tc, legacy) ==
    IF IsErr(i) \/ IsErr(n) \/ IsErr(Tc) THEN Err
    ELSE IF Fallback(i, n) THEN legacy
    ELSE FMul(legacy, FPow(FAdd(One, i), Tc))

\* cas90_annualized_financial_costs(basic, financial, total): the stage's
\* C900000 (Err when it raises) and the inputs as the stage leaves them:
\* it stores effective_crf in financial.capital_recovery_factor
Cas90EffectiveCrf(i, n, Tc, legacy) ==
    IF IsErr(i) \/ IsErr(n) \/ IsErr(Tc) THEN Err
    ELSE IF Fallback(i, n) THEN legacy
    ELSE FMul(CrfFormula(i, n), FPow(FAdd(One, i), Tc))

Cas90Annualize(tree, total, effective_crf) ==
    [ C900000 |-> ToFloat(FMul(effective_crf, total)),
      inputs  |-> IF IsErr(effective_crf) THEN tree
                  ELSE SetAttr(tree, Financial("capital_recovery_factor"),
                               FloatV(effective_crf)) ]

cas90_annualized_financial_costs(tree, total) ==
    Cas90Annualize(tree, total,
        Cas90EffectiveCrf(
            ToFloat(Get(tree, Financial("interest_rate"))),
            ToFloat(IF ~IsNone(tree, BASIC)
                       /\ ~IsNone(tree, Basic("plant_lifetime"))
                    THEN Get(tree, Basic("plant_lifetime"))
                    ELSE Get(tree, Financial("plant_lifetime_years"))),
            ToFloat(IF ~IsNone(tree, BASIC)
                       /\ ~IsNone(tree, Basic("construction_time"))
                    THEN Get(tree, Basic("construction_time"))
                    ELSE Get(tree, Financial("construction_years"))),
            ToFloat(Get(tree, Financial("capital_recovery_factor")))))

\* lcoe_costs(basic, financial, power_table, cas70, cas80, cas90): C1000000
LcoeQuotient(i, n, opex_base, pv_opex, annual_energy_mwh, C900000) ==
    IF IsErr(i) \/ IsErr(n) \/ IsErr(pv_opex) THEN Err
    ELSE ToFloat(FDiv(FAdd(m_to_usd(C900000),
                           IF Fallback(i, n) THEN opex_base
                           ELSE FMul(CrfFormula(i, n), pv_opex)),
                      annual_energy_mwh))

LcoePresentValue(i, g, n, opex_base, annual_energy_mwh, C900000) ==
    LcoeQuotient(i, n, opex_base,
                 IF IsErr(g) THEN Err ELSE PvGrowing(opex_base, i, g, n),
                 annual_energy_mwh, C900000)

lcoe_costs(tree, p_net, C700000, C800000, C900000) ==
    LcoePresentValue(
        ToFloat(Get(tree, Financial("interest_rate"))),
        ToFloat(Get(tree, Basic("yearly_inflation"))),
        ToFloat(Get(tree, Basic("plant_lifetime"))),
        FAdd(m_to_usd(C700000), m_to_usd(C800000)),
        FMul(FMul(FMul(Int2F(HoursPerYear), p_net),
                  ToFloat(Get(tree, Basic("n_mod")))),
             Get(tree, Basic("plant_availability"))),
        C900000)

\* RunCosting(inputs): the ordered pipeline.  The stages upstream of the
\* annualized ones (power balance, CAS10 to CAS60 capital accounts, CAS80
\* fuel) are black-box collaborators, stood in for by the smallest
\* functions of the tree with the same shape: net electric power
\* eta_th * p_nrl, total capital of one dollar per MW of p_nrl, no fuel
\* cost.  A stage that raises ends the pipeline; what an earlier stage wrote
\* stays written.
CostingData(inputs, lcoe) ==
    [ raised |-> IsErr(lcoe), C1000000 |-> lcoe, inputs |-> inputs ]

RunLcoeStage(p_net, C700000, cas90) ==
    IF IsErr(cas90.C900000) THEN CostingData(cas90.inputs, Err)
    ELSE CostingData(cas90.inputs,
                     lcoe_costs(cas90.inputs, p_net, C700000, Zero,
                                cas90.C900000))

RunCas90Stage(tree, p_net, total, C700000) ==
    IF IsErr(C700000) THEN CostingData(tree, Err)
    ELSE RunLcoeStage(p_net, C700000,
                      cas90_annualized_financial_costs(tree, total))

RunCas70Stage(tree, p_net, total) ==
    RunCas90Stage(tree, p_net, total,
                  IF IsErr(p_net) \/ IsErr(total) THEN Err
                  ELSE cas70_annualized_om_costs(tree, p_net))

RunCosting(tree) ==
    RunCas70Stage(tree,
                  FMul(Get(tree, PowerInput("eta_th")),
                       Get(tree, Basic("p_nrl"))),
                  to_m_usd(Get(tree, Basic("p_nrl"))))

\* The synthetic two-field tree {a, b} and its objective a + 10*b, bound to
\* the name RunCosting in place of the pipeline
ScenarioTree(a, b) ==
    ( << >> :> DataclassV )
    @@ ( << "a" >> :> FloatV(a) )
    @@ ( << "b" >> :> FloatV(b) )

ScenarioObjective(tree) ==
    CostingData(tree, FAdd(Get(tree, << "a" >>),
                           FMul(Int2F(10), Get(tree, << "b" >>))))

\* the function the analyzer imports as RunCosting
CostModel(tree) ==
    IF << "a" >> \in DOMAIN tree THEN ScenarioObjective(tree)
    ELSE RunCosting(tree)

(***************************************************************************)
(* Scalar-leaf extraction                                                  *)
(***************************************************************************)
\* fields(obj) of the dataclass at prefix, as the paths of its fields
Fields(tree, prefix) ==
    { p \in DOMAIN tree :
        /\ Len(p) = Len(prefix) + 1
        /\ SubSeq(p, 1, Len(prefix)) = prefix }

\* pyfecons/sensitivity.py get_scalar_leaves: the paths it returns
RECURSIVE LeafPaths(_, _)
LeafPaths(tree, prefix) ==
    IF tree[prefix].t # "dc" THEN {}
    ELSE UNION { IF tree[p].t = "none" THEN {}
                 ELSE IF tree[p].t = "bool" THEN {}
                 ELSE IF tree[p].t \in {"int", "float"} THEN {p}
                 ELSE IF tree[p].t = "dc" THEN LeafPaths(tree, p)
                 ELSE {} : p \in Fields(tree, prefix) }

\* sensitivity_analysis.py get_scalar_leaves: the paths it returns
RECURSIVE ScriptLeafPaths(_, _)
ScriptLeafPaths(tree, prefix) ==
    IF tree[prefix].t # "dc" THEN {}
    ELSE UNION { IF tree[p].t = "none" THEN {}
                 ELSE IF tree[p].t \in {"int", "float", "bool"} THEN {p}
                 ELSE IF tree[p].t = "dc" THEN ScriptLeafPaths(tree, p)
                 ELSE {} : p \in Fields(tree, prefix) }

\* the dict path -> (parent_obj, field_name, value)
LeafDict(tree, paths) ==
    [ p \in paths |-> [ obj   |-> SubSeq(p, 1, Len(p) - 1),
                        field |-> p[Len(p)],
                        value |-> tree[p] ] ]

\* faulty variant: nested dataclasses are not descended into
TopLevelLeaves(tree) ==
    LeafDict(tree, { p \in Fields(tree, << >>) : tree[p].t \in {"int", "float"} })

get_scalar_leaves(tree) == LeafDict(tree, LeafPaths(tree, << >>))
script_get_scalar_leaves(tree) == LeafDict(tree, ScriptLeafPaths(tree, << >>))

\* sorted(scalar_leaves.items()): the keys in ascending order
RECURSIVE SortedPaths(_)
SortedPaths(S) ==
    IF S = {} THEN << >>
    ELSE LET m == CHOOSE x \in S : \A y \in S \ {x} : PathLt(x, y)
         IN  << m >> \o SortedPaths(S \ {m})

(***************************************************************************)
(* The analyzer: sensitivity_analysis() of pyfecons/sensitivity.py         *)
(* (impl = "lib") and of the script sensitivity_analysis.py                *)
(* (impl = "script")                                                       *)
(***************************************************************************)
VARIABLES
    impl,             \* which of the two sensitivity_analysis functions runs
    caller_inputs,    \* the tree as the caller held it when it made the call
    baseline_inputs,  \* the caller's tree object, as it is now
    delta_frac,       \* argument
    quiet,            \* argument (lib only)
    pc,               \* "start", "loop", "evaluate", "returned", "raised"
    lcoe_baseline,
    scalar_leaves,    \* dict of the baseline leaves
    order,            \* sorted(scalar_leaves.items()), the keys
    idx,              \* number of leaves the loop has finished with
    delta,            \* of the leaf in hand
    perturbed_inputs, \* the copy of the leaf in hand
    entries,          \* lib: entries; script: derivatives, in insertion order
    result,           \* what the call returned
    lcoe_perturbed,   \* of the leaf last evaluated
    failed,           \* leaves whose try block raised
    skipped,          \* leaves not found in the copy
    printed,          \* lines written to the real stdout
    calls,            \* how many times the caller has called the analysis
    first,            \* what the call before this one gave
    command           \* the command line and how the command ended, if one runs

vars == << impl, caller_inputs, baseline_inputs, delta_frac, quiet, pc,
           lcoe_baseline, scalar_leaves, order, idx, delta, perturbed_inputs,
           entries, result, lcoe_perturbed, failed, skipped, printed,
           calls, first, command >>

MaxLifetime == 2

Half == Fin(1, 2)

\* AllInputs as a customer's DefineInputs.Generate() builds it, cut down to
\* one field of each kind and the fields the annualized stages read
AllInputs(i, n, g, avail, crf, om, year) ==
    ( << >> :> DataclassV )
    @@ ( << "customer_info" >> :> DataclassV )
    @@ ( << "customer_info", "name" >> :> StrV )
    @@ ( BASIC :> DataclassV )
    @@ ( Basic("fusion_machine_type") :> EnumV )
    @@ ( Basic("p_nrl") :> FloatV(Int2F(2)) )
    @@ ( Basic("n_mod") :> IntV(1) )
    @@ ( Basic("construction_time") :> FloatV(Int2F(2)) )
    @@ ( Basic("plant_lifetime") :> FloatV(n) )
    @@ ( Basic("plant_availability") :> avail )
    @@ ( Basic("noak") :> BoolV(TRUE) )
    @@ ( Basic("yearly_inflation") :> FloatV(g) )
    @@ ( << "power_input" >> :> DataclassV )
    @@ ( PowerInput("eta_th") :> FloatV(Half) )
    @@ ( PowerInput("p_implosion") :> NoneV )
    @@ ( << "coils" >> :> DataclassV )
    @@ ( << "coils", "magnets" >> :> ListV )
    @@ ( FINANCIAL :> DataclassV )
    @@ ( Financial("a_c_98") :> FloatV(Int2F(115)) )
    @@ ( Financial("a_power") :> FloatV(Int2F(1000)) )
    @@ ( Financial("interest_rate") :> FloatV(i) )
    @@ ( Financial("construction_years") :> IntV(5) )
    @@ ( Financial("plant_lifetime_years") :> IntV(30) )
    @@ ( Financial("capital_recovery_factor") :> FloatV(crf) )
    @@ ( << "costing_constants" >> :> DataclassV )
    @@ ( Constants("om_cost_per_mw_per_year") :> FloatV(om) )
    @@ ( << "costing_constants", "inflation" >> :> DataclassV )
    @@ ( << "costing_constants", "inflation", "target_year" >> :> year )
    @@ ( << "costing_constants", "inflation", "exchange_rate_date" >> :> StrV )

InterestRates  == { One, Zero, Int2F(-2) }
Lifetimes      == { Int2F(n) : n \in 0..MaxLifetime }
Inflations     == { Zero, PInf }
Availabilities == { FloatV(One), NoneV }
LegacyCrfs     == { Fin(1, 10), Zero }
OmCosts        == { One, Zero }
Fractions      == { Half, One, Zero }
TargetYears    == { IntV(2024), V("int", Huge) }

NotYet == [kind |-> "pending"]


Init ==
    /\ impl \in {"lib", "script"}
    /\ quiet \in (IF impl = "lib" THEN BOOLEAN ELSE {FALSE})
    /\ delta_frac \in Fractions
    /\ \E i \in InterestRates, n \in Lifetimes, g \in Inflations,
          avail \in Availabilities, crf \in LegacyCrfs, om \in OmCosts,
          year \in TargetYears :
            baseline_inputs = AllInputs(i, n, g, avail, crf, om, year)
    /\ caller_inputs = baseline_inputs
    /\ pc = "start"
    /\ lcoe_baseline = NoneF
    /\ scalar_leaves = << >>
    /\ order = << >>
    /\ idx = 0
    /\ delta = NoneF
    /\ perturbed_inputs = << >>
    /\ entries = << >>
    /\ result = NotYet
    /\ lcoe_perturbed = NoneF
    /\ failed = {}
    /\ skipped = {}
    /\ printed = 0
    /\ calls = 1
    /\ first = NotYet
    /\ command = [ fusion_machine_type |-> "", customer |-> "",
                   exit_code |-> -1, artifact |-> FALSE ]

Extract(tree) ==
    IF impl = "lib" THEN get_scalar_leaves(tree)
    ELSE script_get_scalar_leaves(tree)

\* print(...) unless quiet was asked for; the script always prints
Say(lines) == IF quiet THEN 0 ELSE lines

\* faulty variant: only the None half of the test
BaselineIsNone(lcoe) == lcoe.k = "none"

\* "lcoe_baseline is None or lcoe_baseline == 0" on the float just made
BaselineInvalid(lcoe) == lcoe.k = "none" \/ FEq(lcoe, Zero)

\* the baseline run, the zero test and the extraction
\* (sensitivity.py 198-216, sensitivity_analysis.py 185-199);
\* r is RunCosting(baseline_inputs)
BaselineOutcome(r) ==
    /\ baseline_inputs' = r.inputs
    /\ IF r.raised
       THEN /\ pc' = "raised"
            /\ printed' = printed + Say(1)
            /\ UNCHANGED << lcoe_baseline, scalar_leaves, order, result >>
       ELSE IF BaselineInvalid(ToFloat(r.C1000000))
       THEN /\ pc' = "returned"
            /\ lcoe_baseline' = ToFloat(r.C1000000)
            /\ result' = [kind |-> IF impl = "lib" THEN "None"
                                   ELSE "empty_dict"]
            /\ printed' = printed + Say(2)
            /\ UNCHANGED << scalar_leaves, order >>
       ELSE /\ pc' = "loop"
            /\ lcoe_baseline' = ToFloat(r.C1000000)
            /\ scalar_leaves' = Extract(r.inputs)
            /\ order' = SortedPaths(DOMAIN scalar_leaves')
            /\ printed' = printed + Say(IF impl = "lib" THEN 3 ELSE 5)
            /\ UNCHANGED result

RunBaseline ==
    /\ pc = "start"
    /\ BaselineOutcome(CostModel(baseline_inputs))
    /\ UNCHANGED << impl, caller_inputs, delta_frac, quiet, idx, delta,
                    perturbed_inputs, entries, lcoe_perturbed, failed,
                    skipped >>
    /\ UNCHANGED << calls, first, command >>

\* faulty variant: the relative rule alone, without the guard for zero
RelativeDelta(baseline_val) == FMul(FAbs(baseline_val), delta_frac)

\* the perturbation delta of a leaf (sensitivity.py 222-225)
Delta(baseline_val) ==
    IF FEq(baseline_val, Zero) THEN One
    ELSE FMul(FAbs(baseline_val), delta_frac)

\* faulty variant: the copy of the leaf before is used again
PreviousCopy ==
    IF perturbed_inputs = << >> THEN baseline_inputs ELSE perturbed_inputs

\* the tree the copy is made from
CopySource == baseline_inputs

\* head of one loop iteration: delta, the copy, locating and setting the
\* leaf (sensitivity.py 219-234, sensitivity_analysis.py 202-213).  None of
\* it is inside the try block: an exception raised here ends the call.
PerturbLeaf ==
    /\ pc = "loop"
    /\ idx < Len(order)
    /\ LET path         == order[idx + 1]
           baseline_val == scalar_leaves[path].value.x
           d            == Delta(baseline_val)
           copy         == DeepCopy(CopySource)
           perturbed_leaf == Extract(copy)
       IN  /\ delta' = d
           /\ IF IsErr(d)
              THEN /\ pc' = "raised"
                   /\ UNCHANGED << perturbed_inputs, skipped, idx >>
              ELSE IF path \notin DOMAIN perturbed_leaf
              THEN /\ perturbed_inputs' = copy
                   /\ skipped' = skipped \cup {path}
                   /\ idx' = idx + 1
                   /\ pc' = "loop"
              ELSE /\ perturbed_inputs' =
                        SetAttr(copy,
                                perturbed_leaf[path].obj
                                    \o << perturbed_leaf[path].field >>,
                                FloatV(FAdd(baseline_val, d)))
                   /\ UNCHANGED << skipped, idx >>
                   /\ pc' = "evaluate"
    /\ UNCHANGED << impl, caller_inputs, baseline_inputs, delta_frac, quiet,
                    lcoe_baseline, scalar_leaves, order, entries, result,
                    lcoe_perturbed, failed, printed >>
    /\ UNCHANGED << calls, first, command >>

\* faulty variant: a clause that takes none of what the block raises
ExceptCatchesNothing(raised) == FALSE

\* does the except clause of the per-leaf try block take what the block
\* raised ("except Exception")
ExceptCatches(raised) == raised

\* the try block of one loop iteration (sensitivity.py 236-263,
\* sensitivity_analysis.py 215-232); r is RunCosting(perturbed_inputs)
TryOutcome(path, baseline_val, r, derivative, elasticity) ==
    /\ perturbed_inputs' = r.inputs
    /\ lcoe_perturbed' = ToFloat(r.C1000000)
    /\ IF ~(r.raised \/ IsErr(derivative) \/ IsErr(elasticity))
       THEN /\ entries' = Append(entries,
                            [ parameter_path |-> path,
                              baseline_value |-> baseline_val,
                              derivative     |-> derivative,
                              elasticity     |-> elasticity ])
            /\ UNCHANGED failed
            /\ pc' = "loop"
       ELSE /\ failed' = failed \cup {path}
            /\ UNCHANGED entries
            /\ pc' = IF ExceptCatches(TRUE) THEN "loop" ELSE "raised"
    /\ printed' = printed + Say(1)

\* faulty variant: the elasticity taken at the perturbed value of the leaf
TryElasticityAtPerturbed(path, baseline_val, r, derivative) ==
    TryOutcome(path, baseline_val, r, derivative,
               FDiv(FMul(derivative, FAdd(baseline_val, delta)),
                    lcoe_baseline))

TryElasticity(path, baseline_val, r, derivative) ==
    TryOutcome(path, baseline_val, r, derivative,
               FDiv(FMul(derivative, baseline_val), lcoe_baseline))

TryDerivative(path, baseline_val, r) ==
    TryElasticity(path, baseline_val, r,
                  FDiv(FSub(ToFloat(r.C1000000), lcoe_baseline), delta))

\* faulty variant: under quiet the value of the call is dropped, and the
\* use of it after the with block raises
QuietRunLosesResult(tree) ==
    IF quiet THEN CostingData(CostModel(tree).inputs, Err)
    ELSE CostModel(tree)

\* the evaluation of the perturbed tree, inside the try block: the same
\* call with and without quiet, which only decides where stdout and stderr
\* go meanwhile (sensitivity.py 237-243)
PerturbedCosting(tree) == CostModel(tree)

EvaluateLeaf ==
    /\ pc = "evaluate"
    /\ TryDerivative(order[idx + 1], scalar_leaves[order[idx + 1]].value.x,
                     PerturbedCosting(perturbed_inputs))
    /\ idx' = idx + 1
    /\ UNCHANGED << impl, caller_inputs, baseline_inputs, delta_frac, quiet,
                    lcoe_baseline, scalar_leaves, order, delta, result,
                    skipped >>
    /\ UNCHANGED << calls, first, command >>

\* entries.sort(key=lambda e: abs(e.elasticity), reverse=True) and
\* sorted(derivatives.items(), key=..., reverse=True), as CPython's list
\* sort does it for a list shorter than 64: the list is reversed, its
\* leading run is found (a strictly descending one is reversed), the rest
\* is inserted by binary search, and the list is reversed back.  Keys are
\* compared with <, which is False whenever a key is nan.
KeyLt(a, b) == FLt(FAbs(a.elasticity), FAbs(b.elasticity))

Reverse(s) == [j \in 1..Len(s) |-> s[Len(s) + 1 - j]]

RECURSIVE DescendingRun(_, _)
DescendingRun(s, n) ==
    IF n < Len(s) /\ KeyLt(s[n + 1], s[n]) THEN DescendingRun(s, n + 1) ELSE n

RECURSIVE AscendingRun(_, _)
AscendingRun(s, n) ==
    IF n < Len(s) /\ ~KeyLt(s[n + 1], s[n]) THEN AscendingRun(s, n + 1) ELSE n

count_run(s) ==
    IF Len(s) < 2 THEN [n |-> Len(s), descending |-> FALSE]
    ELSE IF KeyLt(s[2], s[1])
    THEN [n |-> DescendingRun(s, 2), descending |-> TRUE]
    ELSE [n |-> AscendingRun(s, 2), descending |-> FALSE]

\* where the pivot goes among s[l..r-1]
RECURSIVE BinarySearch(_, _, _, _)
BinarySearch(s, pivot, l, r) ==
    IF l >= r THEN l
    ELSE IF KeyLt(pivot, s[l + ((r - l) \div 2)])
    THEN BinarySearch(s, pivot, l, l + ((r - l) \div 2))
    ELSE BinarySearch(s, pivot, l + ((r - l) \div 2) + 1, r)

MoveTo(s, start, at) ==
    SubSeq(s, 1, at - 1) \o << s[start] >> \o SubSeq(s, at, start - 1)
        \o SubSeq(s, start + 1, Len(s))

RECURSIVE binarysort(_, _)
binarysort(s, start) ==
    IF start > Len(s) THEN s
    ELSE binarysort(MoveTo(s, start, BinarySearch(s, s[start], 1, start)),
                    start + 1)

SortRun(s, run) ==
    binarysort(IF run.descending
               THEN Reverse(SubSeq(s, 1, run.n)) \o SubSeq(s, run.n + 1, Len(s))
               ELSE s,
               run.n + 1)

ListSort(s) == SortRun(s, count_run(s))

SortByAbsElasticity(es) == Reverse(ListSort(Reverse(es)))

\* faulty variant: the leaves that got an entry
CountOfEntries == Len(entries)

\* the count the result carries (sensitivity.py 214, 271)
CountReturned == Cardinality(DOMAIN scalar_leaves)

\* after the loop: the sort and the return value
\* (sensitivity.py 265-272, sensitivity_analysis.py 243-257)
Finish ==
    /\ pc = "loop"
    /\ idx = Len(order)
    /\ IF impl = "lib"
       THEN /\ entries' = SortByAbsElasticity(entries)
            /\ result' = [ kind |-> "SensitivityResult",
                           lcoe_baseline |-> lcoe_baseline,
                           entries |-> SortByAbsElasticity(entries),
                           n_parameters_analyzed |-> CountReturned ]
            /\ printed' = printed
       ELSE /\ UNCHANGED entries
            /\ result' = [ kind |-> "dict",
                           lcoe_baseline |-> lcoe_baseline,
                           derivatives |-> entries,
                           sorted_by_elasticity |-> SortByAbsElasticity(entries) ]
            /\ printed' = printed + 6 + Len(entries)
    /\ pc' = "returned"
    /\ UNCHANGED << impl, caller_inputs, baseline_inputs, delta_frac, quiet,
                    lcoe_baseline, scalar_leaves, order, idx, delta,
                    perturbed_inputs, lcoe_perturbed, failed, skipped >>
    /\ UNCHANGED << calls, first, command >>

Next == RunBaseline \/ PerturbLeaf \/ EvaluateLeaf \/ Finish

Spec == Init /\ [][Next]_vars

(***************************************************************************)
(* A caller that runs the analysis again with the same fraction, with or   *)
(* without quiet, on the tree object it passed the time before or on a     *)
(* tree built anew with the values that one was built with                 *)
(***************************************************************************)
MaxCalls == 2

Rerun ==
    /\ pc = "returned"
    /\ result.kind \in {"SensitivityResult", "dict"}
    /\ calls < MaxCalls
    /\ calls' = calls + 1
    /\ first' = [ lcoe_baseline |-> result.lcoe_baseline,
                  entries |-> IF impl = "lib" THEN result.entries
                              ELSE result.sorted_by_elasticity,
                  count   |-> IF impl = "lib" THEN result.n_parameters_analyzed
                              ELSE Len(result.derivatives),
                  failed  |-> failed,
                  quiet   |-> quiet,
                  printed |-> printed ]
    /\ quiet' \in (IF impl = "lib" THEN BOOLEAN ELSE {FALSE})
    /\ baseline_inputs' \in {baseline_inputs, caller_inputs}
    /\ caller_inputs' = baseline_inputs'
    /\ pc' = "start"
    /\ lcoe_baseline' = NoneF
    /\ scalar_leaves' = << >>
    /\ order' = << >>
    /\ idx' = 0
    /\ delta' = NoneF
    /\ perturbed_inputs' = << >>
    /\ entries' = << >>
    /\ result' = NotYet
    /\ lcoe_perturbed' = NoneF
    /\ failed' = {}
    /\ skipped' = {}
    /\ printed' = 0
    /\ UNCHANGED << impl, delta_frac, command >>

NextTwice == RunBaseline \/ PerturbLeaf \/ EvaluateLeaf \/ Finish \/ Rerun

SpecTwice == Init /\ [][NextTwice]_vars

(***************************************************************************)
(* The analysis of the synthetic two-field tree                            *)
(***************************************************************************)
\* the state in which a call starts
NothingRunYet ==
    /\ caller_inputs = baseline_inputs
    /\ pc = "start"
    /\ lcoe_baseline = NoneF
    /\ scalar_leaves = << >>
    /\ order = << >>
    /\ idx = 0
    /\ delta = NoneF
    /\ perturbed_inputs = << >>
    /\ entries = << >>
    /\ result = NotYet
    /\ lcoe_perturbed = NoneF
    /\ failed = {}
    /\ skipped = {}
    /\ printed = 0
    /\ calls = 1
    /\ first = NotYet
    /\ command = [ fusion_machine_type |-> "", customer |-> "",
                   exit_code |-> -1, artifact |-> FALSE ]

InitScenario ==
    /\ impl \in {"lib", "script"}
    /\ quiet \in (IF impl = "lib" THEN BOOLEAN ELSE {FALSE})
    /\ delta_frac \in { Fin(1, 100), Fin(1, 10), Half }
    /\ \E a \in { Int2F(100), Int2F(50), Int2F(-100) }, b \in { Zero, One } :
            baseline_inputs = ScenarioTree(a, b)
    /\ NothingRunYet

SpecScenario == InitScenario /\ [][Next]_vars

(***************************************************************************)
(* The stages on their own, given inputs in which fields are None          *)
(***************************************************************************)
MFE == V("enum", Int2F(1))
IFE == V("enum", Int2F(2))

\* faulty variant: the field is used as it is
NoDefault(tree, path, default) == Get(tree, path)

\* "x if x is not None else default"
OrDefault(tree, path, default) ==
    IF IsNone(tree, path) THEN default ELSE Get(tree, path)

PowerTable(p_dee, p_dec_waste, p_wall, p_cool, p_coils, p_pump) ==
    [ kind   |-> "power_table",
      raised |-> \E x \in {p_dee, p_dec_waste, p_wall, p_cool, p_coils, p_pump} :
                    IsErr(x),
      p_dee |-> p_dee, p_dec_waste |-> p_dec_waste, p_wall |-> p_wall,
      p_cool |-> p_cool, p_coils |-> p_coils, p_pump |-> p_pump ]

\* power_balance, the routing of the charged-particle power p_ash
\* (power_balance.py 30-53); MW(x) is float(x)
ChargedParticleRouting(tree, p_ash, f_dec) ==
    IF tree[Basic("fusion_machine_type")] = MFE
    THEN PowerTable(
             ToFloat(FMul(FMul(f_dec, Get(tree, PowerInput("eta_de"))), p_ash)),
             ToFloat(FMul(FMul(f_dec,
                               FSub(One, Get(tree, PowerInput("eta_de")))),
                          p_ash)),
             ToFloat(FMul(FSub(One, f_dec), p_ash)),
             ToFloat(OrDefault(tree, PowerInput("p_cool"), Zero)),
             ToFloat(OrDefault(tree, PowerInput("p_coils"), Zero)),
             ToFloat(OrDefault(tree, PowerInput("p_pump"), Zero)))
    ELSE PowerTable(Zero, Zero, ToFloat(p_ash), NoneF, NoneF,
                    ToFloat(OrDefault(tree, PowerInput("p_pump"), Zero)))

\* the charged-particle share of the fusion power, D-T fuel
\* (compute_ash_neutron_split: E_alpha / Q_DT, about 20%)
AshPower(tree) == FMul(Fin(1, 5), Get(tree, Basic("p_nrl")))

power_balance(tree) ==
    ChargedParticleRouting(tree, AshPower(tree),
                           OrDefault(tree, PowerInput("f_dec"), Zero))

\* inputs of the stages: the customer's tree with short fallback periods in
\* Financial, and each of the fields in question set or left None
SetOrNone(x) == { FloatV(x), NoneV }

InitStages ==
    /\ impl = "lib"
    /\ quiet = FALSE
    /\ delta_frac = Fin(1, 100)
    /\ \E i \in {FloatV(One), FloatV(Zero), NoneV},
          n \in SetOrNone(Int2F(2)) \cup {FloatV(Zero)},
          Tc \in SetOrNone(Int2F(2)), f_dec \in SetOrNone(Half),
          eta_de \in SetOrNone(Half), p_cool \in SetOrNone(One),
          p_coils \in SetOrNone(One), p_pump \in SetOrNone(One),
          machine \in {MFE, IFE} :
            baseline_inputs =
                ( Financial("interest_rate") :> i )
                @@ ( Basic("plant_lifetime") :> n )
                @@ ( Basic("construction_time") :> Tc )
                @@ ( Financial("plant_lifetime_years") :> IntV(3) )
                @@ ( Financial("construction_years") :> IntV(1) )
                @@ ( PowerInput("f_dec") :> f_dec )
                @@ ( PowerInput("eta_de") :> eta_de )
                @@ ( PowerInput("p_cool") :> p_cool )
                @@ ( PowerInput("p_coils") :> p_coils )
                @@ ( PowerInput("p_pump") :> p_pump )
                @@ ( Basic("fusion_machine_type") :> machine )
                @@ AllInputs(One, Int2F(2), Zero, FloatV(One), Fin(1, 10), One, IntV(2024))
    /\ NothingRunYet

\* a stage called once on the inputs; r is what it gives
StageDone(r, inputs) ==
    /\ pc = "start"
    /\ result' = r
    /\ baseline_inputs' = inputs
    /\ pc' = IF r.raised THEN "raised" ELSE "returned"
    /\ UNCHANGED << impl, caller_inputs, delta_frac, quiet, lcoe_baseline,
                    scalar_leaves, order, idx, delta, perturbed_inputs,
                    entries, lcoe_perturbed, failed, skipped, printed, calls,
                    first, command >>

Cas90Result(r) ==
    StageDone([ kind |-> "cas90", raised |-> IsErr(r.C900000),
                C900000 |-> r.C900000 ], r.inputs)

LcoeResult(lcoe) ==
    StageDone([ kind |-> "lcoe", raised |-> IsErr(lcoe), C1000000 |-> lcoe ],
              baseline_inputs)

RunPowerBalance == StageDone(power_balance(baseline_inputs), baseline_inputs)

RunCas90 ==
    Cas90Result(cas90_annualized_financial_costs(
                    baseline_inputs, to_m_usd(Get(baseline_inputs, Basic("p_nrl")))))

RunLcoe ==
    LcoeResult(lcoe_costs(baseline_inputs, One, One, Zero, One))

NextStages == RunPowerBalance \/ RunCas90 \/ RunLcoe

SpecStages == InitStages /\ [][NextStages]_vars

(***************************************************************************)
(* validate_inputs (pyfecons/validation.py), with the rule tables cut down *)
(* to the dataclasses basic, power_input, financial and the fields         *)
(* fusion_machine_type, p_nrl, plant_lifetime, eta_th, eta_pin, p_input,   *)
(* interest_rate                                                           *)
(***************************************************************************)
\* result.error(...) / result.warn(...) when the condition holds
ErrorIf(cond, dc_name, field, constraint) ==
    IF cond
    THEN << [ dataclass_name |-> dc_name, field_name |-> field,
              constraint |-> constraint ] >>
    ELSE << >>


\* faulty variant: tier 0 records nothing and the other tiers always run
machine_type_unchecked(tree) == << >>

\* tier 0: the errors of _get_machine_type (it returns None when it
\* records one)
get_machine_type(tree) ==
    IF IsNone(tree, BASIC) THEN ErrorIf(TRUE, "AllInputs", "basic", "required (cannot be None)")
    ELSE ErrorIf(IsNone(tree, Basic("fusion_machine_type")),
                 "Basic", "fusion_machine_type", "required (cannot be None)")

validate_required_dataclasses(tree) ==
    ErrorIf(IsNone(tree, BASIC), "AllInputs", "basic", "required (cannot be None)")
    \o ErrorIf(IsNone(tree, << "power_input" >>),
               "AllInputs", "power_input", "required (cannot be None)")
    \o ErrorIf(IsNone(tree, FINANCIAL), "AllInputs", "financial", "required (cannot be None)")

RequiredField(tree, dc, dc_name, field) ==
    ErrorIf(~IsNone(tree, dc) /\ IsNone(tree, dc \o << field >>),
            dc_name, field, "required (cannot be None)")

validate_required_fields(tree) ==
    RequiredField(tree, BASIC, "Basic", "fusion_machine_type")
    \o RequiredField(tree, BASIC, "Basic", "p_nrl")
    \o RequiredField(tree, BASIC, "Basic", "plant_lifetime")
    \o RequiredField(tree, << "power_input" >>, "PowerInput", "eta_th")
    \o RequiredField(tree, << "power_input" >>, "PowerInput", "p_input")
    \o (IF tree[Basic("fusion_machine_type")] = MFE
        THEN RequiredField(tree, << "power_input" >>, "PowerInput", "eta_pin")
        ELSE << >>)
    \o RequiredField(tree, FINANCIAL, "Financial", "interest_rate")

\* one row of FIELD_RULES: skipped when the dataclass or the value is None
FieldRule(tree, dc, dc_name, field, passed, constraint) ==
    ErrorIf(~IsNone(tree, dc) /\ ~IsNone(tree, dc \o << field >>) /\ ~passed,
            dc_name, field, constraint)

InUnitInterval(v) == FLt(Zero, v) /\ FLe(v, One)

\* the rows of FIELD_RULES with is_error True
validate_field_rules(tree) ==
    FieldRule(tree, BASIC, "Basic", "p_nrl",
              FLt(Zero, Get(tree, Basic("p_nrl"))), "> 0 (MW)")
    \o FieldRule(tree, BASIC, "Basic", "plant_lifetime",
                 FLt(Zero, Get(tree, Basic("plant_lifetime"))), "> 0 (years)")
    \o FieldRule(tree, << "power_input" >>, "PowerInput", "eta_th",
                 InUnitInterval(Get(tree, PowerInput("eta_th"))), "in (0, 1]")
    \o FieldRule(tree, << "power_input" >>, "PowerInput", "eta_pin",
                 InUnitInterval(Get(tree, PowerInput("eta_pin"))), "in (0, 1]")
    \o FieldRule(tree, << "power_input" >>, "PowerInput", "p_input",
                 FLt(Zero, Get(tree, PowerInput("p_input"))), "> 0 (MW)")
    \o FieldRule(tree, FINANCIAL, "Financial", "interest_rate",
                 FLe(Zero, Get(tree, Financial("interest_rate"))), ">= 0")

\* the row of FIELD_RULES with is_error False
field_rule_warnings(tree) ==
    FieldRule(tree, << "power_input" >>, "PowerInput", "eta_th",
              FLe(Get(tree, PowerInput("eta_th")), Fin(13, 20)),
              "unusually high thermal efficiency (> 0.65)")

\* the division-by-zero check of _validate_cross_field
validate_cross_field(tree) ==
    ErrorIf( /\ ~IsNone(tree, << "power_input" >>)
             /\ tree[Basic("fusion_machine_type")] = MFE
             /\ ~IsNone(tree, PowerInput("eta_pin"))
             /\ FEq(Get(tree, PowerInput("eta_pin")), Zero),
            "PowerInput", "eta_pin", "> 0 (division by zero in power balance)")

\* faulty variant: the warnings are emitted before the errors are looked at
warn_then_raise(errors, warnings) ==
    [ kind |-> "validation", raised |-> errors # << >>, errors |-> errors,
      warned |-> warnings ]

\* faulty variant: the exception is raised with the first error alone
raise_first_error(errors, warnings) ==
    [ kind |-> "validation", raised |-> errors # << >>,
      errors |-> IF errors = << >> THEN << >> ELSE << Head(errors) >>,
      warned |-> IF errors = << >> THEN warnings ELSE << >> ]

\* ValidationResult.raise_if_errors: ValidationError(errors) when there are
\* errors, otherwise the warnings are emitted
raise_if_errors(errors, warnings) ==
    [ kind |-> "validation", raised |-> errors # << >>, errors |-> errors,
      warned |-> IF errors = << >> THEN warnings ELSE << >> ]

validate_inputs(tree) ==
    IF get_machine_type(tree) # << >>
    THEN raise_if_errors(get_machine_type(tree), << >>)
    ELSE raise_if_errors(validate_required_dataclasses(tree)
                             \o validate_required_fields(tree)
                             \o validate_field_rules(tree)
                             \o validate_cross_field(tree),
                         field_rule_warnings(tree))

InitValidate ==
    /\ impl = "lib"
    /\ quiet = FALSE
    /\ delta_frac = Fin(1, 100)
    /\ \E basic \in {DataclassV, NoneV}, machine \in {MFE, IFE, NoneV},
          p_nrl \in {FloatV(Int2F(2)), FloatV(Int2F(-100)), NoneV},
          n \in {FloatV(Int2F(2)), FloatV(Int2F(-5))},
          power_input \in {DataclassV, NoneV},
          eta_th \in {FloatV(Half), FloatV(Int2F(2)), FloatV(Fin(7, 10))},
          eta_pin \in {FloatV(Half), FloatV(Zero), NoneV},
          p_input \in {FloatV(One), FloatV(Int2F(4)), FloatV(Int2F(-1)), NoneV},
          financial \in {DataclassV, NoneV},
          i \in {FloatV(One), FloatV(Int2F(-1))} :
            baseline_inputs =
                ( << >> :> DataclassV )
                @@ ( BASIC :> basic )
                @@ ( Basic("fusion_machine_type") :> machine )
                @@ ( Basic("p_nrl") :> p_nrl )
                @@ ( Basic("plant_lifetime") :> n )
                @@ ( << "power_input" >> :> power_input )
                @@ ( PowerInput("eta_th") :> eta_th )
                @@ ( PowerInput("eta_pin") :> eta_pin )
                @@ ( PowerInput("p_input") :> p_input )
                @@ ( FINANCIAL :> financial )
                @@ ( Financial("interest_rate") :> i )
    /\ NothingRunYet

Validate == StageDone(validate_inputs(baseline_inputs), baseline_inputs)

SpecValidate == InitValidate /\ [][Validate]_vars

(***************************************************************************)
(* The radial build (cas220101_reactor_equipment.py): compute_inner_radii  *)
(* and compute_outer_radii are straight-line assignments to the fields of  *)
(* OUT.  A statement << target, a, b >> is "OUT.target = a + b" and        *)
(* << target, a, "" >> is "OUT.target = a"; a and b name a field of IN     *)
(* (the thicknesses, *_t) or of OUT (the radii, *_ir and *_or).  An         *)
(* addition that raises (a None operand) ends the run of the statements.   *)
(***************************************************************************)
RECURSIVE Execute(_, _)
Execute(env, code) ==
    IF code = << >> \/ \E f \in DOMAIN env : IsErr(env[f]) THEN env
    ELSE Execute(( Head(code)[1] :>
                     (IF Head(code)[3] = "" THEN env[Head(code)[2]]
                      ELSE FAdd(env[Head(code)[2]], env[Head(code)[3]])) )
                 @@ env,
                 Tail(code))

\* faulty variant: gap2 follows lt_shield for every machine type
inner_radii_without_coil(machine) ==
    << << "axis_ir", "axis_t", "" >>,
       << "plasma_ir", "axis_ir", "" >>,
       << "vacuum_ir", "plasma_t", "plasma_ir" >>,
       << "firstwall_ir", "vacuum_t", "vacuum_ir" >>,
       << "blanket1_ir", "firstwall_ir", "firstwall_t" >>,
       << "reflector_ir", "blanket1_ir", "blanket1_t" >>,
       << "ht_shield_ir", "reflector_ir", "reflector_t" >>,
       << "structure_ir", "ht_shield_ir", "ht_shield_t" >>,
       << "gap1_ir", "structure_ir", "structure_t" >>,
       << "vessel_ir", "gap1_ir", "gap1_t" >>,
       << "lt_shield_ir", "vessel_ir", "vessel_t" >>,
       << "coil_ir", "lt_shield_ir", "lt_shield_t" >>,
       << "gap2_ir", "lt_shield_ir", "lt_shield_t" >>,
       << "bioshield_ir", "gap2_ir", "gap2_t" >> >>

compute_inner_radii(machine) ==
    << << "axis_ir", "axis_t", "" >>,
       << "plasma_ir", "axis_ir", "" >>,
       << "vacuum_ir", "plasma_t", "plasma_ir" >>,
       << "firstwall_ir", "vacuum_t", "vacuum_ir" >>,
       << "blanket1_ir", "firstwall_ir", "firstwall_t" >>,
       << "reflector_ir", "blanket1_ir", "blanket1_t" >>,
       << "ht_shield_ir", "reflector_ir", "reflector_t" >>,
       << "structure_ir", "ht_shield_ir", "ht_shield_t" >>,
       << "gap1_ir", "structure_ir", "structure_t" >>,
       << "vessel_ir", "gap1_ir", "gap1_t" >>,
       << "lt_shield_ir", "vessel_ir", "vessel_t" >> >>
    \o (IF machine = MFE
        THEN << << "coil_ir", "lt_shield_ir", "lt_shield_t" >>,
                << "gap2_ir", "coil_ir", "coil_t" >> >>
        ELSE << << "gap2_ir", "lt_shield_ir", "lt_shield_t" >> >>)
    \o << << "bioshield_ir", "gap2_ir", "gap2_t" >> >>

\* faulty variant: the low-temperature shield ends where the vessel would
outer_radii_vessel_for_shield(machine) ==
    << << "axis_or", "axis_ir", "axis_t" >>,
       << "plasma_or", "plasma_ir", "plasma_t" >>,
       << "vacuum_or", "vacuum_ir", "vacuum_t" >>,
       << "firstwall_or", "firstwall_ir", "firstwall_t" >>,
       << "blanket1_or", "blanket1_ir", "blanket1_t" >>,
       << "reflector_or", "reflector_ir", "reflector_t" >>,
       << "ht_shield_or", "ht_shield_ir", "ht_shield_t" >>,
       << "structure_or", "structure_ir", "structure_t" >>,
       << "gap1_or", "gap1_ir", "gap1_t" >>,
       << "vessel_or", "vessel_ir", "vessel_t" >>,
       << "lt_shield_or", "lt_shield_ir", "vessel_t" >> >>
    \o (IF machine = MFE THEN << << "coil_or", "coil_ir", "coil_t" >> >>
        ELSE << >>)
    \o << << "gap2_or", "gap2_ir", "gap2_t" >>,
          << "bioshield_or", "bioshield_ir", "bioshield_t" >> >>

compute_outer_radii(machine) ==
    << << "axis_or", "axis_ir", "axis_t" >>,
       << "plasma_or", "plasma_ir", "plasma_t" >>,
       << "vacuum_or", "vacuum_ir", "vacuum_t" >>,
       << "firstwall_or", "firstwall_ir", "firstwall_t" >>,
       << "blanket1_or", "blanket1_ir", "blanket1_t" >>,
       << "reflector_or", "reflector_ir", "reflector_t" >>,
       << "ht_shield_or", "ht_shield_ir", "ht_shield_t" >>,
       << "structure_or", "structure_ir", "structure_t" >>,
       << "gap1_or", "gap1_ir", "gap1_t" >>,
       << "vessel_or", "vessel_ir", "vessel_t" >>,
       << "lt_shield_or", "lt_shield_ir", "lt_shield_t" >> >>
    \o (IF machine = MFE THEN << << "coil_or", "coil_ir", "coil_t" >> >>
        ELSE << >>)
    \o << << "gap2_or", "gap2_ir", "gap2_t" >>,
          << "bioshield_or", "bioshield_ir", "bioshield_t" >> >>

InitRadial ==
    /\ impl = "lib"
    /\ quiet = FALSE
    /\ delta_frac = Fin(1, 100)
    /\ \E machine \in {MFE, IFE}, axis_t \in {Zero, Int2F(3)},
          plasma_t \in {Fin(11, 10), Fin(49, 10)}, vacuum_t \in {Zero, Fin(1, 10)},
          gap1_t \in {Half, PInf}, coil_t \in {Fin(1, 4), Zero, NoneF} :
            \* the thicknesses of the tokamak build of the tests, five of
            \* them varied
            baseline_inputs =
                [ fusion_machine_type |-> machine,
                  radial_build |->
                    [ axis_t |-> axis_t, plasma_t |-> plasma_t,
                      vacuum_t |-> vacuum_t, firstwall_t |-> Fin(1, 5),
                      blanket1_t |-> Fin(4, 5), reflector_t |-> Fin(1, 5),
                      ht_shield_t |-> Fin(1, 5), structure_t |-> Fin(1, 5),
                      gap1_t |-> gap1_t, vessel_t |-> Fin(1, 5),
                      coil_t |-> coil_t, gap2_t |-> Half,
                      lt_shield_t |-> Fin(3, 10), bioshield_t |-> One ] ]
    /\ NothingRunYet

\* compute_reactor_equipment_costs, lines 51-52: inner radii, then outer
\* radii on the same OUT; an addition with None raises TypeError
ComputeRadii ==
    LET OUT == Execute(
                   Execute(baseline_inputs.radial_build,
                           compute_inner_radii(baseline_inputs.fusion_machine_type)),
                   compute_outer_radii(baseline_inputs.fusion_machine_type))
    IN  StageDone([ kind |-> "radii",
                    raised |-> \E f \in DOMAIN OUT : IsErr(OUT[f]),
                    OUT |-> OUT ], baseline_inputs)

SpecRadial == InitRadial /\ [][ComputeRadii]_vars

(***************************************************************************)
(* The command (sensitivity_analysis.py run as a script): the arguments,   *)
(* load_customer_inputs, the analysis, and the artifact                    *)
(***************************************************************************)
\* customer: "AllInputs" when DefineInputs imports and Generate() returns an
\* AllInputs, else what went wrong
InitCommand ==
    /\ impl = "script"
    /\ quiet = FALSE
    /\ delta_frac \in Fractions
    /\ \E fusion_machine_type \in { "mfe", "ife", "mif" },
          customer \in { "AllInputs", "ImportError", "no Generate",
                         "not AllInputs" } :
            /\ command = [ fusion_machine_type |-> fusion_machine_type,
                           customer |-> customer, exit_code |-> -1,
                           artifact |-> FALSE ]
            /\ \E eta_th \in { FloatV(Half), FloatV(Int2F(2)) },
                  i \in { One, Int2F(-2) }, n \in { Int2F(2), Zero },
                  avail \in Availabilities, crf \in LegacyCrfs,
                  om \in OmCosts :
                    \* what Generate() of the named parameter set returns
                    baseline_inputs =
                        ( Basic("fusion_machine_type") :>
                            (IF fusion_machine_type = "ife" THEN IFE ELSE MFE) )
                        @@ ( PowerInput("eta_th") :> eta_th )
                        @@ ( PowerInput("eta_pin") :> FloatV(Half) )
                        @@ ( PowerInput("p_input") :> FloatV(One) )
                        @@ AllInputs(i, n, Zero, avail, crf, om, IntV(2024))
    /\ caller_inputs = baseline_inputs
    /\ pc = "main"
    /\ lcoe_baseline = NoneF
    /\ scalar_leaves = << >>
    /\ order = << >>
    /\ idx = 0
    /\ delta = NoneF
    /\ perturbed_inputs = << >>
    /\ entries = << >>
    /\ result = NotYet
    /\ lcoe_perturbed = NoneF
    /\ failed = {}
    /\ skipped = {}
    /\ printed = 0
    /\ calls = 1
    /\ first = NotYet

\* __main__ down to the call of sensitivity_analysis: "mif" and a parameter
\* set that does not load print one line and sys.exit(1); nothing else is
\* asked of the inputs
LoadCustomerInputs ==
    /\ pc = "main"
    /\ IF command.fusion_machine_type = "mif" \/ command.customer # "AllInputs"
       THEN /\ pc' = "exited"
            /\ command' = [ command EXCEPT !.exit_code = 1 ]
            /\ printed' = printed + 1
       ELSE /\ pc' = "start"
            /\ printed' = printed + 4
            /\ UNCHANGED command
    /\ UNCHANGED << impl, caller_inputs, baseline_inputs, delta_frac, quiet,
                    lcoe_baseline, scalar_leaves, order, idx, delta,
                    perturbed_inputs, entries, result, lcoe_perturbed, failed,
                    skipped, calls, first >>

\* __main__ from "if results:" on, or the exception nothing catches
SaveAndExit ==
    /\ pc \in { "returned", "raised" }
    /\ command.customer # ""
    /\ pc' = "exited"
    /\ IF pc = "raised"
       THEN /\ command' = [ command EXCEPT !.exit_code = 1 ]
            /\ UNCHANGED printed
       ELSE IF result.kind = "dict"
       THEN /\ command' = [ command EXCEPT !.exit_code = 0, !.artifact = TRUE ]
            /\ printed' = printed + 5
                          + (IF Len(result.sorted_by_elasticity) < 5
                             THEN Len(result.sorted_by_elasticity) ELSE 5)
       ELSE /\ command' = [ command EXCEPT !.exit_code = 0 ]
            /\ UNCHANGED printed
    /\ UNCHANGED << impl, caller_inputs, baseline_inputs, delta_frac, quiet,
                    lcoe_baseline, scalar_leaves, order, idx, delta,
                    perturbed_inputs, entries, result, lcoe_perturbed, failed,
                    skipped, calls, first >>

NextCommand ==
    LoadCustomerInputs \/ RunBaseline \/ PerturbLeaf \/ EvaluateLeaf \/ Finish
    \/ SaveAndExit

SpecCommand == InitCommand /\ [][NextCommand]_vars

(***************************************************************************)
(* The capital-cost table of the result artifact                           *)
(***************************************************************************)
\* rows of the fourth sheet: capital_costs[:20], scaled down
TopN == 3

\* the walk over the dataclass fields in todo, in order: a field named "C"
\* followed by digits is kept when it holds an int or a float above zero, a
\* dataclass under a name starting with "cas" is walked in turn, anything
\* else is passed over
RECURSIVE extract_costs(_, _)
extract_costs(costing, todo) ==
    IF todo = << >> THEN << >>
    ELSE LET p         == Head(todo)
             name      == p[Len(p)]
             field_val == costing[p]
             is_cost   == name \in { "C100000", "C1000000", "C110000",
                                     "C220000", "C220101", "C900000" }
             is_cas    == name \in { "cas10", "cas22", "cas220101", "cas90" }
             rest      == extract_costs(costing, Tail(todo))
         IN  IF field_val.t = "none" THEN rest
             ELSE IF is_cost
                  THEN IF /\ field_val.t \in { "int", "float" }
                          /\ FLt(Zero, field_val.x)
                       THEN << [ code |-> name, value |-> field_val.x ] >> \o rest
                       ELSE rest
             ELSE IF field_val.t = "dc" /\ is_cas
                  THEN extract_costs(costing, SortedPaths(Fields(costing, p)))
                       \o rest
             ELSE rest

\* faulty variant: the rows stay in the order the walk found them
unsorted(costs) == costs

\* costs.sort(key=value, reverse=True): descending, equal values keep the
\* order they were found in
RECURSIVE SortDescending(_)
SortDescending(costs) ==
    IF costs = << >> THEN << >>
    ELSE LET sorted == SortDescending(Tail(costs))
             before == { k \in 0..Len(sorted) :
                           \A j \in 1..k : FLt(Head(costs).value, sorted[j].value) }
             at     == CHOOSE k \in before : \A j \in before : j <= k
         IN  SubSeq(sorted, 1, at) \o << Head(costs) >>
             \o SubSeq(sorted, at + 1, Len(sorted))

get_capital_cost_categories(costing) ==
    SortDescending(extract_costs(costing, SortedPaths(Fields(costing, << >>))))

InitCapital ==
    /\ impl = "script"
    /\ delta_frac = Fin(1, 100)
    /\ quiet = FALSE
    /\ \E cas10 \in { DataclassV, NoneV },
          C100000 \in { FloatV(Int2F(5)), FloatV(Zero), NoneV },
          C110000 \in { FloatV(Int2F(3)), FloatV(Int2F(-2)) },
          C220000 \in { FloatV(Int2F(7)), FloatV(Int2F(3)) },
          C220101 \in { FloatV(Int2F(4)), IntV(9), FloatV(NaN) },
          C900000 \in { FloatV(One), FloatV(Zero) },
          C1000000 \in { FloatV(Int2F(100)), FloatV(Int2F(2)) } :
            \* a cost result: two categories with a total and a part, one
            \* of them holding a nested category, the annualized total, the
            \* objective and the power table
            baseline_inputs =
                ( << "cas10" >> :> cas10 )
                @@ ( << "cas10", "C100000" >> :> C100000 )
                @@ ( << "cas10", "C110000" >> :> C110000 )
                @@ ( << "cas22" >> :> DataclassV )
                @@ ( << "cas22", "C220000" >> :> C220000 )
                @@ ( << "cas22", "cas220101" >> :> DataclassV )
                @@ ( << "cas22", "cas220101", "C220101" >> :> C220101 )
                @@ ( << "cas90" >> :> DataclassV )
                @@ ( << "cas90", "C900000" >> :> C900000 )
                @@ ( << "lcoe" >> :> DataclassV )
                @@ ( << "lcoe", "C1000000" >> :> C1000000 )
                @@ ( << "power_table" >> :> DataclassV )
                @@ ( << "power_table", "p_net" >> :> FloatV(Int2F(400)) )
    /\ NothingRunYet

\* the fourth sheet of save_results_to_excel
WriteCapitalSheet ==
    StageDone([ kind |-> "capital", raised |-> FALSE,
                top20_capital |->
                    SubSeq(get_capital_cost_categories(baseline_inputs), 1,
                           IF Len(get_capital_cost_categories(baseline_inputs)) < TopN
                           THEN Len(get_capital_cost_categories(baseline_inputs))
                           ELSE TopN) ],
              baseline_inputs)

SpecCapital == InitCapital /\ [][WriteCapitalSheet]_vars

(***************************************************************************)
(* What the script's summary sheet reports                                 *)
(***************************************************************************)
\* faulty variant: the leaves found, whether or not they got a derivative
SummaryCountOfLeaves(results) == Cardinality(DOMAIN scalar_leaves)

\* "Total Parameters Analyzed" of save_results_to_excel
SummaryCount(results) == Len(results.derivatives)

(***************************************************************************)
(* Properties                                                              *)
(***************************************************************************)
HasResult == pc = "returned" /\ result.kind \in {"SensitivityResult", "dict"}

ResultEntries ==
    IF result.kind = "SensitivityResult" THEN result.entries
    ELSE result.sorted_by_elasticity

EntryPaths(es) == { es[j].parameter_path : j \in 1..Len(es) }

Leaves == DOMAIN scalar_leaves

\* the count reported with a result: n_parameters_analyzed of the library,
\* the summary sheet's count of the script
ReportedCount ==
    IF result.kind = "SensitivityResult" THEN result.n_parameters_analyzed
    ELSE SummaryCount(result)

\* the leaf in hand while pc is "evaluate"
Target == order[idx + 1]

\* C1: when sensitivity_analysis has returned, every field of the caller's
\* baseline tree holds the value it held when the call was made.
C1_BaselineNeverMutated ==
    pc = "returned" => baseline_inputs = caller_inputs

\* C2: when the perturbed evaluation of exactly one leaf has raised and
\* nothing else has failed, the call has not ended in an exception, and once
\* it has returned the result holds one entry for each of the other leaves
\* and none for the failing leaf.
C2_FaultIsolation ==
    (Cardinality(failed) = 1 /\ ~IsErr(delta)) =>
        /\ pc # "raised"
        /\ pc = "returned" =>
            /\ HasResult
            /\ EntryPaths(ResultEntries) = Leaves \ failed
            /\ Len(ResultEntries) = Cardinality(Leaves) - 1

C2_Witness ==
    /\ HasResult
    /\ Cardinality(failed) = 1
    /\ EntryPaths(ResultEntries) # {}

\* C3: only a failure of the baseline run ends the call in an exception: no
\* failure that arises while a leaf is processed does.
C3_NoLeafFailureEscapes ==
    pc = "raised" => order = << >>

C5_ReportedCountDropsByOne ==
    (HasResult /\ Cardinality(failed) = 1) =>
        ReportedCount = Cardinality(Leaves) - 1

\* C5 amended: with exactly one failing leaf, the number of entries is one
\* less than the number of leaves; the script's summary count follows it,
\* while the library's n_parameters_analyzed stays the number of leaves.
C5_EntriesDropByOne ==
    (HasResult /\ Cardinality(failed) = 1) =>
        /\ Len(entries) = Cardinality(Leaves) - 1
        /\ impl = "lib" => result.n_parameters_analyzed = Cardinality(Leaves)
        /\ impl = "script" => SummaryCount(result) = Cardinality(Leaves) - 1

C5_Witness ==
    /\ HasResult
    /\ Cardinality(failed) = 1
    /\ impl = "script"
    /\ SummaryCount(result) < Cardinality(Leaves)

\* C6: the count in a SensitivityResult is the number of leaves of the
\* baseline tree, those without an entry included.
C6_CountIsAllLeaves ==
    (pc = "returned" /\ result.kind = "SensitivityResult") =>
        /\ result.n_parameters_analyzed =
              Cardinality(DOMAIN get_scalar_leaves(baseline_inputs))
        /\ result.n_parameters_analyzed =
              Len(result.entries) + Cardinality(failed) + Cardinality(skipped)

C6_Witness ==
    /\ pc = "returned"
    /\ result.kind = "SensitivityResult"
    /\ failed # {}
    /\ Len(result.entries) < result.n_parameters_analyzed

\* C7: an evaluation whose objective is not a finite number appends no
\* entry.
C7_InvalidObjectiveAppendsNothing ==
    [][(pc = "evaluate" /\ ~IsValidNumber(lcoe_perturbed'))
          => entries' = entries]_vars

\* C8: the tree handed to the cost model for a leaf is the baseline tree
\* with that leaf, and nothing else, set to its baseline value plus delta,
\* whatever was done to the copies of the leaves before it.
C8_CopyMutatedOnceAtTarget ==
    pc = "evaluate" =>
        /\ scalar_leaves[Target].value = baseline_inputs[Target]
        /\ perturbed_inputs =
              [baseline_inputs EXCEPT
                  ![Target] = FloatV(FAdd(baseline_inputs[Target].x, delta))]

C8_Witness ==
    /\ pc = "evaluate"
    /\ idx > 0
    /\ perturbed_inputs # baseline_inputs
    /\ perturbed_inputs[Financial("capital_recovery_factor")] =
          baseline_inputs[Financial("capital_recovery_factor")]

\* C9: evaluating the cost model leaves every field of the tree it is given
\* as it was.
C9_CostModelPure ==
    pc = "evaluate" => RunCosting(perturbed_inputs).inputs = perturbed_inputs

\* C10: no leaf the extractor returns is a boolean field, in the library
\* and in the script.
C10_NoBooleanLeaf ==
    \A p \in DOMAIN scalar_leaves : scalar_leaves[p].value.t # "bool"

\* the numeric (int or float, not bool) fields of a tree, at any depth
NumericFields(tree) == { p \in DOMAIN tree : tree[p].t \in {"int", "float"} }

\* C11: the library's extractor returns exactly one path for each numeric
\* field of the tree it is given, at any nesting depth, and no path for a
\* boolean, enumeration, None, string or list field: on the baseline tree,
\* on every perturbed copy, and in the dict the analysis works from.
C11_ExtractionComplete ==
    /\ DOMAIN get_scalar_leaves(baseline_inputs) = NumericFields(baseline_inputs)
    /\ perturbed_inputs # << >> =>
          DOMAIN get_scalar_leaves(perturbed_inputs)
              = NumericFields(perturbed_inputs)
    /\ (impl = "lib" /\ order # << >>) =>
          /\ Leaves = NumericFields(baseline_inputs)
          /\ Len(order) = Cardinality(NumericFields(baseline_inputs))

C11_Witness ==
    /\ impl = "lib"
    /\ pc = "loop"
    /\ << "costing_constants", "inflation", "target_year" >> \in Leaves
    /\ Basic("p_nrl") \in Leaves
    /\ Basic("noak") \notin Leaves
    /\ baseline_inputs[PowerInput("p_implosion")].t = "none"
    /\ PowerInput("p_implosion") \notin Leaves
    /\ Leaves \cap { Basic("fusion_machine_type"), << "coils", "magnets" >>,
                     << "customer_info", "name" >>, << "coils" >> } = {}

\* C12: the paths extracted from a deep copy of the baseline tree are the
\* paths extracted from the baseline tree, every leaf in hand is found in
\* its copy under its own path, and no leaf is ever skipped as not found.
C12_PathsStableUnderCopy ==
    /\ skipped = {}
    /\ DOMAIN Extract(DeepCopy(baseline_inputs)) = DOMAIN Extract(baseline_inputs)
    /\ pc = "evaluate" =>
          /\ DOMAIN Extract(perturbed_inputs) = Leaves
          /\ Target \in DOMAIN Extract(perturbed_inputs)
          /\ Extract(perturbed_inputs)[Target].obj \o
                 << Extract(perturbed_inputs)[Target].field >> = Target

C12_Witness ==
    /\ HasResult
    /\ idx = Len(order)
    /\ idx > 1
    /\ skipped = {}
    /\ Cardinality(EntryPaths(ResultEntries)) > 1

\* C13: the delta of a leaf whose baseline value is exactly 0 is 1.0, the
\* delta of every other leaf is |baseline value| * fraction, and the leaf
\* of the copy is set to the baseline value plus that delta.
C13_ZeroBaselineGuard ==
    pc = "evaluate" =>
        /\ IsZeroF(scalar_leaves[Target].value.x) => delta = One
        /\ ~IsZeroF(scalar_leaves[Target].value.x) =>
              delta = FMul(FAbs(scalar_leaves[Target].value.x), delta_frac)
        /\ perturbed_inputs[Target].x
              = FAdd(scalar_leaves[Target].value.x, delta)

C13_Witness ==
    /\ pc = "evaluate"
    /\ IsZeroF(scalar_leaves[Target].value.x)
    /\ delta = One
    /\ delta_frac = Half
    /\ perturbed_inputs[Target].x = One

\* C14: in the returned sequence of entries, the absolute elasticity of
\* every entry is greater than or equal to that of the entry after it.
C14_RankedByAbsElasticity ==
    HasResult =>
        \A j \in 1..(Len(ResultEntries) - 1) :
            FLe(FAbs(ResultEntries[j + 1].elasticity),
                FAbs(ResultEntries[j].elasticity))

C16_Deterministic ==
    (calls >= 2 /\ HasResult /\ failed = {} /\ first.failed = {}) =>
        /\ { ResultEntries[j] : j \in 1..Len(ResultEntries) }
              = { first.entries[j] : j \in 1..Len(first.entries) }
        /\ result.lcoe_baseline = first.lcoe_baseline

C16_Witness ==
    /\ calls = 2
    /\ HasResult
    /\ failed = {} /\ first.failed = {}
    /\ Len(first.entries) > 1
    /\ baseline_inputs[Financial("capital_recovery_factor")].x \notin LegacyCrfs
    /\ caller_inputs = baseline_inputs

\* C17: a call with quiet and a call without it, with the same fraction on
\* the same tree, return the same baseline LCOE, the same entries in the
\* same order and the same count.
C17_QuietKeepsValues ==
    (calls >= 2 /\ HasResult /\ first.quiet # quiet) =>
        /\ result.lcoe_baseline = first.lcoe_baseline
        /\ ResultEntries = first.entries
        /\ ReportedCount = first.count

C17_Witness ==
    /\ calls = 2
    /\ HasResult
    /\ quiet /\ ~first.quiet
    /\ Len(ResultEntries) > 1
    /\ failed # {}
    /\ printed = 0 /\ first.printed > 0

\* C18: for the tree {a: 100.0, b: 0.0} with objective a + 10*b and a
\* fraction of 1%, the result holds a (derivative 1, elasticity 1) and then
\* b (derivative 10, elasticity exactly 0); and whatever a and the fraction
\* are, a leaf b of 0 gets derivative 10, elasticity 0 and the rank below a.
C18_TwoLeafScenario ==
    (HasResult /\ IsZeroF(baseline_inputs[<< "b" >>].x)) =>
        /\ Len(ResultEntries) = 2
        /\ ResultEntries[1].parameter_path = << "a" >>
        /\ ResultEntries[2].parameter_path = << "b" >>
        /\ ResultEntries[2].derivative = Int2F(10)
        /\ ResultEntries[2].elasticity = Zero
        /\ ( /\ baseline_inputs[<< "a" >>].x = Int2F(100)
             /\ delta_frac = Fin(1, 100) ) =>
              /\ result.lcoe_baseline = Int2F(100)
              /\ ResultEntries[1].derivative = One
              /\ ResultEntries[1].elasticity = One

C18_Witness ==
    /\ HasResult
    /\ baseline_inputs = ScenarioTree(Int2F(100), Zero)
    /\ delta_frac = Fin(1, 100)
    /\ Len(ResultEntries) = 2
    /\ ResultEntries[2].derivative # Zero
    /\ ResultEntries[2].elasticity = Zero

StageRan == pc \in {"returned", "raised"} /\ result.kind # "pending"

\* C19 as stated: a stage that reads a field holding None raises.
C19_StageRaisesOnNone ==
    LET \* the fields a stage reads, on the inputs it was given
        StageReads ==
            IF result.kind = "power_table"
            THEN (IF caller_inputs[Basic("fusion_machine_type")] = MFE
                  THEN { PowerInput("f_dec"), PowerInput("eta_de"),
                         PowerInput("p_cool"), PowerInput("p_coils"),
                         PowerInput("p_pump") }
                  ELSE { PowerInput("p_pump") })
            ELSE IF result.kind = "cas90"
            THEN { Financial("interest_rate"), Basic("plant_lifetime"),
                   Basic("construction_time") }
            ELSE { Financial("interest_rate"), Basic("plant_lifetime") }
    IN  (StageRan /\ \E p \in StageReads : IsNone(caller_inputs, p))
            => result.raised

\* C19 amended: the power balance puts 0 in place of a None f_dec, p_cool,
\* p_coils or p_pump and raises only for a None eta_de (MFE); CAS90 gives
\* for a None basic.plant_lifetime or basic.construction_time what it gives
\* with financial.plant_lifetime_years or financial.construction_years in
\* its place, and raises for a None interest_rate; the LCOE stage raises
\* for a None interest_rate or plant_lifetime.
C19_NoneReplacedByDefault ==
    StageRan =>
        /\ (result.kind = "power_table"
               /\ caller_inputs[Basic("fusion_machine_type")] = MFE) =>
              /\ result.raised = IsNone(caller_inputs, PowerInput("eta_de"))
              /\ (IsNone(caller_inputs, PowerInput("f_dec")) /\ ~result.raised)
                    => /\ result.p_dee = Zero
                       /\ result.p_dec_waste = Zero
                       /\ result.p_wall = AshPower(caller_inputs)
              /\ IsNone(caller_inputs, PowerInput("p_cool"))
                    => result.p_cool = Zero
              /\ IsNone(caller_inputs, PowerInput("p_coils"))
                    => result.p_coils = Zero
        /\ result.kind = "power_table" =>
              ( IsNone(caller_inputs, PowerInput("p_pump"))
                    => result.p_pump = Zero )
        /\ result.kind = "cas90" =>
              /\ result.raised = IsNone(caller_inputs, Financial("interest_rate"))
              /\ result.C900000 =
                    cas90_annualized_financial_costs(
                        [caller_inputs EXCEPT
                            ![Basic("plant_lifetime")] =
                                IF @.t = "none"
                                THEN caller_inputs[Financial("plant_lifetime_years")]
                                ELSE @,
                            ![Basic("construction_time")] =
                                IF @.t = "none"
                                THEN caller_inputs[Financial("construction_years")]
                                ELSE @],
                        to_m_usd(Get(caller_inputs, Basic("p_nrl")))).C900000
        /\ result.kind = "lcoe" =>
              result.raised =
                  ( \/ IsNone(caller_inputs, Financial("interest_rate"))
                    \/ IsNone(caller_inputs, Basic("plant_lifetime")) )

C19_Witness ==
    /\ pc = "returned"
    /\ result.kind = "power_table"
    /\ caller_inputs[Basic("fusion_machine_type")] = MFE
    /\ IsNone(caller_inputs, PowerInput("f_dec"))
    /\ IsNone(caller_inputs, PowerInput("p_cool"))
    /\ ~result.raised
    /\ result.p_dee = Zero
    /\ result.p_cool = Zero

\* the rules of the cut-down tables that the inputs violate
ViolatedRules(tree) ==
    LET Present(dc, field) ==
            ~IsNone(tree, dc) /\ ~IsNone(tree, dc \o << field >>)
        Missing(dc, field) ==
            ~IsNone(tree, dc) /\ IsNone(tree, dc \o << field >>)
        IsMFE == ~IsNone(tree, BASIC) /\ tree[Basic("fusion_machine_type")] = MFE
    IN  { r \in { "basic", "fusion_machine_type", "power_input", "financial",
                  "p_nrl required", "plant_lifetime required",
                  "eta_th required", "eta_pin required",
                  "p_input required", "p_input > 0",
                  "interest_rate required", "p_nrl > 0", "plant_lifetime > 0",
                  "eta_th in (0, 1]", "eta_pin in (0, 1]",
                  "interest_rate >= 0", "eta_pin = 0" } :
            CASE r = "basic" -> IsNone(tree, BASIC)
              [] r = "fusion_machine_type" ->
                    Missing(BASIC, "fusion_machine_type")
              [] r = "power_input" -> IsNone(tree, << "power_input" >>)
              [] r = "financial" -> IsNone(tree, FINANCIAL)
              [] r = "p_nrl required" -> Missing(BASIC, "p_nrl")
              [] r = "plant_lifetime required" ->
                    Missing(BASIC, "plant_lifetime")
              [] r = "eta_th required" ->
                    Missing(<< "power_input" >>, "eta_th")
              [] r = "eta_pin required" ->
                    IsMFE /\ Missing(<< "power_input" >>, "eta_pin")
              [] r = "p_input required" ->
                    Missing(<< "power_input" >>, "p_input")
              [] r = "p_input > 0" ->
                    /\ Present(<< "power_input" >>, "p_input")
                    /\ ~FLt(Zero, tree[PowerInput("p_input")].x)
              [] r = "interest_rate required" ->
                    Missing(FINANCIAL, "interest_rate")
              [] r = "p_nrl > 0" ->
                    /\ Present(BASIC, "p_nrl")
                    /\ ~FLt(Zero, tree[Basic("p_nrl")].x)
              [] r = "plant_lifetime > 0" ->
                    /\ Present(BASIC, "plant_lifetime")
                    /\ ~FLt(Zero, tree[Basic("plant_lifetime")].x)
              [] r = "eta_th in (0, 1]" ->
                    /\ Present(<< "power_input" >>, "eta_th")
                    /\ ~InUnitInterval(tree[PowerInput("eta_th")].x)
              [] r = "eta_pin in (0, 1]" ->
                    /\ Present(<< "power_input" >>, "eta_pin")
                    /\ ~InUnitInterval(tree[PowerInput("eta_pin")].x)
              [] r = "interest_rate >= 0" ->
                    /\ Present(FINANCIAL, "interest_rate")
                    /\ ~FLe(Zero, tree[Financial("interest_rate")].x)
              [] r = "eta_pin = 0" ->
                    /\ IsMFE
                    /\ Present(<< "power_input" >>, "eta_pin")
                    /\ IsZeroF(tree[PowerInput("eta_pin")].x) }

\* C20 as stated: the ValidationError carries one error for each rule the
\* inputs violate.
C20_OneErrorPerViolatedRule ==
    (pc \in {"returned", "raised"} /\ result.kind = "validation") =>
        Len(result.errors) = Cardinality(ViolatedRules(caller_inputs))

\* C20 amended: when basic and its fusion_machine_type are set, the
\* ValidationError carries one error for each rule the inputs violate, and
\* validate_inputs returns without raising exactly when none is violated;
\* when basic or the machine type is None, it carries that one error alone.
C20_AggregatedOnceMachineTypeKnown ==
    (pc \in {"returned", "raised"} /\ result.kind = "validation") =>
        /\ result.raised = (ViolatedRules(caller_inputs) # {})
        /\ (~IsNone(caller_inputs, BASIC) /\ ~IsNone(caller_inputs, Basic("fusion_machine_type"))) =>
              Len(result.errors) = Cardinality(ViolatedRules(caller_inputs))
        /\ ~(~IsNone(caller_inputs, BASIC) /\ ~IsNone(caller_inputs, Basic("fusion_machine_type"))) =>
              /\ Len(result.errors) = 1
              /\ result.errors[1].field_name
                    = (IF IsNone(caller_inputs, BASIC) THEN "basic"
                       ELSE "fusion_machine_type")

C20_Witness ==
    /\ (pc \in {"returned", "raised"} /\ result.kind = "validation")
    /\ pc = "raised"
    /\ (~IsNone(caller_inputs, BASIC) /\ ~IsNone(caller_inputs, Basic("fusion_machine_type")))
    /\ Len(result.errors) >= 3
    /\ { "p_nrl", "plant_lifetime", "eta_th" }
          \subseteq { result.errors[j].field_name : j \in 1..Len(result.errors) }

\* C21: whenever validation records at least one error it raises
\* ValidationError and emits no warning; warnings are emitted only on a run
\* that records no error.
C21_WarningsOnlyWithoutErrors ==
    (pc \in {"returned", "raised"} /\ result.kind = "validation") =>
        /\ ViolatedRules(caller_inputs) # {} =>
              (pc = "raised" /\ result.raised /\ result.warned = << >>)
        /\ result.warned # << >> =>
              (pc = "returned" /\ ~result.raised /\ result.errors = << >>)
        /\ (~result.raised /\ field_rule_warnings(caller_inputs) # << >>) =>
              result.warned = field_rule_warnings(caller_inputs)

\* a run that recorded both a warning and an error
C21_Witness ==
    /\ (pc \in {"returned", "raised"} /\ result.kind = "validation")
    /\ (~IsNone(caller_inputs, BASIC) /\ ~IsNone(caller_inputs, Basic("fusion_machine_type")))
    /\ field_rule_warnings(caller_inputs) # << >>
    /\ result.errors # << >>
    /\ result.warned = << >>

\* C28: if inputs.basic or inputs.basic.fusion_machine_type is None,
\* validate_inputs raises a ValidationError carrying exactly one error, for
\* basic or for fusion_machine_type, and none of the other checks adds an
\* error or a warning, whatever else the inputs violate.
C28_MachineTypeMissingIsTheOnlyError ==
    ((pc \in {"returned", "raised"} /\ result.kind = "validation") /\ ~(~IsNone(caller_inputs, BASIC) /\ ~IsNone(caller_inputs, Basic("fusion_machine_type")))) =>
        /\ pc = "raised"
        /\ result.raised
        /\ Len(result.errors) = 1
        /\ result.errors[1].constraint = "required (cannot be None)"
        /\ result.errors[1].field_name
              = (IF IsNone(caller_inputs, BASIC) THEN "basic"
                 ELSE "fusion_machine_type")
        /\ result.warned = << >>

\* the machine type is missing and the inputs violate other rules too
C28_Witness ==
    /\ (pc \in {"returned", "raised"} /\ result.kind = "validation")
    /\ ~(~IsNone(caller_inputs, BASIC) /\ ~IsNone(caller_inputs, Basic("fusion_machine_type")))
    /\ Cardinality(ViolatedRules(caller_inputs)) >= 3
    /\ Len(result.errors) = 1

\* C25: validate_inputs emits a warning about Q_sci = p_nrl / p_input
\* whenever that gain is below 1 and no hard error is present, and no such
\* warning when it is at least 1.
C25_QSciBelowOneWarns ==
    ((pc \in {"returned", "raised"} /\ result.kind = "validation") /\ ~result.raised) =>
        ( (\E j \in 1..Len(result.warned) : result.warned[j].field_name = "Q_sci")
          = FLt(FDiv(Get(caller_inputs, Basic("p_nrl")),
                     Get(caller_inputs, PowerInput("p_input"))), One) )

\* C27: entries whose absolute elasticities are equal appear in the result
\* in ascending order of parameter path.
C27_TiesInPathOrder ==
    HasResult =>
        \A j, k \in 1..Len(ResultEntries) :
            ( /\ j < k
              /\ FEq(FAbs(ResultEntries[j].elasticity),
                     FAbs(ResultEntries[k].elasticity)) )
            => PathLt(ResultEntries[j].parameter_path,
                      ResultEntries[k].parameter_path)

\* C900000 of the stage for the caller's inputs with one field replaced
Cas90With(path, value) ==
    cas90_annualized_financial_costs(
        [caller_inputs EXCEPT ![path] = value],
        to_m_usd(Get(caller_inputs, Basic("p_nrl")))).C900000

\* C24: the CAS90 cost does not depend on construction_time: inputs that
\* differ only in basic.construction_time give the same C900000.
C24_Cas90IgnoresConstructionTime ==
    (StageRan /\ result.kind = "cas90" /\ ~result.raised) =>
        \A Tc \in {One, Int2F(3)} :
            Cas90With(Basic("construction_time"), FloatV(Tc)) = result.C900000

\* C29: when interest_rate > 0 and the plant lifetime > 0, C900000 is the
\* same whatever financial.capital_recovery_factor holds on entry; in the
\* fallback branch (interest_rate <= 0 or lifetime <= 0) C900000 is that
\* incoming value times the total capital cost.
C29_IncomingCrfReadOnlyInFallback ==
    (StageRan /\ result.kind = "cas90" /\ ~result.raised) =>
        \A crf \in {Half, Int2F(3)} :
            Cas90With(Financial("capital_recovery_factor"), FloatV(crf))
              = (IF /\ FLt(Zero, Get(caller_inputs, Financial("interest_rate")))
                    /\ FLt(Zero,
                           OrDefault(caller_inputs, Basic("plant_lifetime"),
                                     Get(caller_inputs,
                                         Financial("plant_lifetime_years"))))
                 THEN result.C900000
                 ELSE FMul(crf, to_m_usd(Get(caller_inputs, Basic("p_nrl")))))

C29_Witness ==
    /\ (StageRan /\ result.kind = "cas90" /\ ~result.raised)
    /\ FLt(Zero, Get(caller_inputs, Financial("interest_rate")))
    /\ FLt(Zero, OrDefault(caller_inputs, Basic("plant_lifetime"),
                           Get(caller_inputs, Financial("plant_lifetime_years"))))
    /\ result.C900000 # Zero
    /\ Cas90With(Financial("capital_recovery_factor"), FloatV(Int2F(3)))
          = result.C900000

\* the layers from the plasma outward, innermost first
LayersFromPlasma(machine) ==
    << "plasma", "vacuum", "firstwall", "blanket1", "reflector", "ht_shield",
       "structure", "gap1", "vessel", "lt_shield" >>
    \o (IF machine = MFE THEN << "coil" >> ELSE << >>)
    \o << "gap2", "bioshield" >>

RECURSIVE ThicknessInside(_, _, _)
\* axis_t plus the thicknesses of the first k layers from the plasma outward
ThicknessInside(build, layers, k) ==
    IF k = 0 THEN build.axis_t
    ELSE FAdd(ThicknessInside(build, layers, k - 1), build[layers[k] \o "_t"])

\* C26: every layer's inner radius is axis_t plus the thicknesses of the
\* layers between the axis and it; for MFE coil_ir = lt_shield_ir +
\* lt_shield_t and gap2_ir = coil_ir + coil_t, for IFE gap2_ir =
\* lt_shield_ir + lt_shield_t.
C26_InnerRadiiCumulative ==
    (pc = "returned" /\ result.kind = "radii") =>
        /\ result.OUT.axis_ir = caller_inputs.radial_build.axis_t
        /\ \A k \in 1..Len(LayersFromPlasma(caller_inputs.fusion_machine_type)) :
              result.OUT[LayersFromPlasma(caller_inputs.fusion_machine_type)[k]
                         \o "_ir"]
                = ThicknessInside(caller_inputs.radial_build,
                                  LayersFromPlasma(caller_inputs.fusion_machine_type),
                                  k - 1)
        /\ caller_inputs.fusion_machine_type = MFE =>
              /\ result.OUT.coil_ir
                    = FAdd(result.OUT.lt_shield_ir,
                           caller_inputs.radial_build.lt_shield_t)
              /\ result.OUT.gap2_ir
                    = FAdd(result.OUT.coil_ir, caller_inputs.radial_build.coil_t)
        /\ caller_inputs.fusion_machine_type = IFE =>
              result.OUT.gap2_ir
                = FAdd(result.OUT.lt_shield_ir,
                       caller_inputs.radial_build.lt_shield_t)

\* an MFE build with a coil of non-zero thickness
C26_Witness ==
    /\ (pc = "returned" /\ result.kind = "radii")
    /\ caller_inputs.fusion_machine_type = MFE
    /\ caller_inputs.radial_build.axis_t = Int2F(3)
    /\ caller_inputs.radial_build.coil_t = Fin(1, 4)
    /\ IsFin(result.OUT.bioshield_ir)
    /\ FLt(result.OUT.coil_ir, result.OUT.gap2_ir)

\* C30: for MFE and IFE, from the plasma outward to the bioshield the
\* outer radius of each layer equals the inner radius of the next one, the
\* coil layer being present only for MFE.
C30_LayersContiguous ==
    (pc = "returned" /\ result.kind = "radii") =>
        /\ \A k \in 1..(Len(LayersFromPlasma(caller_inputs.fusion_machine_type)) - 1) :
              result.OUT[LayersFromPlasma(caller_inputs.fusion_machine_type)[k]
                         \o "_or"]
                = result.OUT[LayersFromPlasma(caller_inputs.fusion_machine_type)[k + 1]
                             \o "_ir"]
        /\ ("coil_ir" \in DOMAIN result.OUT)
              = (caller_inputs.fusion_machine_type = MFE)

\* an IFE build, where gap2 starts at the outer radius of lt_shield
C30_Witness ==
    /\ (pc = "returned" /\ result.kind = "radii")
    /\ caller_inputs.fusion_machine_type = IFE
    /\ "coil_or" \notin DOMAIN result.OUT
    /\ result.OUT.lt_shield_or = result.OUT.gap2_ir
    /\ IsFin(result.OUT.bioshield_or)

\* the positive numeric fields named as a cost code whose enclosing
\* dataclasses all exist and all have a name in through
PositiveCostFields(costing, through) ==
    { p \in DOMAIN costing :
        /\ p[Len(p)] \in { "C100000", "C1000000", "C110000", "C220000",
                           "C220101", "C900000" }
        /\ costing[p].t \in { "int", "float" }
        /\ FLt(Zero, costing[p].x)
        /\ \A k \in 1..(Len(p) - 1) :
              /\ costing[SubSeq(p, 1, k)].t = "dc"
              /\ p[k] \in through }

\* the table is the TopN largest of the candidates, largest first
TableOfLargest(table, costing, candidates) ==
    /\ Len(table) = IF Cardinality(candidates) < TopN
                    THEN Cardinality(candidates) ELSE TopN
    /\ \A k \in 1..Len(table) :
          /\ FLt(Zero, table[k].value)
          /\ \E p \in candidates :
                table[k].code = p[Len(p)] /\ table[k].value = costing[p].x
    /\ \A j, k \in 1..Len(table) :
          /\ (j < k) => FLe(table[k].value, table[j].value)
          /\ (j # k) => table[j].code # table[k].code
    /\ \A p \in candidates :
          \/ \E k \in 1..Len(table) : table[k].code = p[Len(p)]
          \/ Len(table) = TopN /\ FLe(costing[p].x, table[TopN].value)

\* C23 (as stated): the capital-cost table holds the N largest, in descending
\* order, of the positive cost fields found at any nesting depth of the
\* baseline cost result, and no zero or negative field
C23_EveryPositiveCostFieldIsCandidate ==
    (result.kind = "capital") =>
        TableOfLargest(result.top20_capital, baseline_inputs,
                       PositiveCostFields(baseline_inputs,
                                          { p[Len(p)] :
                                              p \in DOMAIN baseline_inputs }))

\* C23 (amended): the capital-cost table holds the N largest, in descending
\* order, of the positive cost fields reached through the cost-category
\* dataclasses (those named "cas...") alone, and no zero or negative field;
\* a cost field under any other dataclass, the objective's among them, is
\* never a candidate
C23_LargestCostsOfCasCategories ==
    (result.kind = "capital") =>
        TableOfLargest(result.top20_capital, baseline_inputs,
                       PositiveCostFields(baseline_inputs,
                                          { "cas10", "cas22", "cas220101",
                                            "cas90" }))

\* more candidates than rows, among them a tie and a nested one, with a zero
\* or negative field left out
C23_Witness ==
    /\ result.kind = "capital"
    /\ Cardinality(PositiveCostFields(baseline_inputs,
              { "cas10", "cas22", "cas220101", "cas90" })) > TopN
    /\ << "cas22", "cas220101", "C220101" >>
          \in PositiveCostFields(baseline_inputs,
              { "cas10", "cas22", "cas220101", "cas90" })
    /\ baseline_inputs[<< "cas10", "C110000" >>].x
          = baseline_inputs[<< "cas22", "C220000" >>].x
    /\ baseline_inputs[<< "cas90", "C900000" >>] = FloatV(Zero)

\* C22: the command ends with a non-zero exit status, and writes no artifact,
\* when the named parameter set fails validate_inputs; it runs the analysis to
\* its end and writes the artifact only when the set passes
C22_InvalidSetExitsNonZero ==
    (pc = "exited" /\ command.customer = "AllInputs"
     /\ validate_inputs(caller_inputs).raised) =>
        (command.exit_code # 0 /\ ~command.artifact)

=============================================================================
